---- MODULE Spec2Model ----
(***************************************************************************)
(* Normal-form detection of CSV files                                      *)
(* (scripts/preprocessing/normal_forms.py).                                *)
(*                                                                         *)
(* Text is a sequence of one-character strings; the empty text is << >>.   *)
(* A delimiter or quotechar parameter is a one-character string, the empty *)
(* string "" ("no delimiter" / "no quotechar" of the option dictionaries), *)
(* or None.  A tester returns the pair <<status, error>>.                  *)
(***************************************************************************)
EXTENDS Integers, Sequences, FiniteSets, TLC

VARIABLES
    pc,             \* detect_form: "start", "loop", "finish", "done"
    record_result,  \* argument of detect_form
    verbose,        \* argument of detect_form
    delim_order,    \* iteration order of the set DELIMS in this process
    loaded,         \* FALSE: load_file returned None
    data,           \* the decoded content
    i,              \* index of the current entry of forms
    j,              \* index of the current option of that entry
    status,         \* status of the last tester call
    error,          \* error (reason code) of the last tester call
    detected_forms, \* list of (ID, opt)
    form_files,     \* the records appended to the form_<id>.json files
    stdout,         \* the lines printed
    ID,             \* the ID attribute of every tester (0: not assigned yet)
    result,         \* what detect_form returned
    raised,         \* the exception that ended detect_form, or None
    fn,             \* function-level harness: <<the function applied, N>>
    arg_data,       \* its text argument
    arg_delim,      \* its delimiter argument
    arg_quotechar,  \* its quotechar argument
    ret             \* what it returned

vars == <<pc, record_result, verbose, delim_order, loaded, data, i, j, status,
          error, detected_forms, form_files, stdout, ID, result, raised,
          fn, arg_data, arg_delim, arg_quotechar, ret>>

detect_vars == <<pc, record_result, verbose, delim_order, loaded, data, i, j,
                 status, error, detected_forms, form_files, stdout, ID,
                 result, raised>>

fn_vars == <<fn, arg_data, arg_delim, arg_quotechar, ret>>

None == "None"

----------------------------------------------------------------------------
(* Characters *)

LowerSeq ==
    <<"a", "b", "c", "d", "e", "f", "g", "h", "i", "j", "k", "l", "m", "n",
      "o", "p", "q", "r", "s", "t", "u", "v", "w", "x", "y", "z">>

UpperSeq ==
    <<"A", "B", "C", "D", "E", "F", "G", "H", "I", "J", "K", "L", "M", "N",
      "O", "P", "Q", "R", "S", "T", "U", "V", "W", "X", "Y", "Z">>

Range(s) == {s[n] : n \in 1..Len(s)}

Lower == Range(LowerSeq)

Upper == Range(UpperSeq)

Digit == {"0", "1", "2", "3", "4", "5", "6", "7", "8", "9"}

AlNum == Lower \cup Upper \cup Digit

\* regex.IGNORECASE on ASCII letters
ToLower(c) ==
    IF c \in Upper THEN LowerSeq[CHOOSE n \in 1..26 : UpperSeq[n] = c] ELSE c

LowerCase(s) == [n \in 1..Len(s) |-> ToLower(s[n])]

----------------------------------------------------------------------------
(* Python str operations *)

\* s[a:b] with 1-based inclusive bounds; empty when a > b
Slice(s, a, b) == IF a > b THEN << >> ELSE SubSeq(s, a, b)

\* s[1:-1]
Interior(s) == Slice(s, 2, Len(s) - 1)

\* x in s, for x the empty string or one character
In(x, s) == x = "" \/ \E n \in 1..Len(s) : s[n] = x

\* sub in s, for a text sub
Contains(s, sub) ==
    \E n \in 0..(Len(s) - Len(sub)) : SubSeq(s, n + 1, n + Len(sub)) = sub

\* s.startswith(prefix)
startswith(s, prefix) ==
    Len(prefix) <= Len(s) /\ SubSeq(s, 1, Len(prefix)) = prefix

\* s.rstrip(c)
RECURSIVE rstrip(_, _)
rstrip(s, c) ==
    IF Len(s) > 0 /\ s[Len(s)] = c THEN rstrip(SubSeq(s, 1, Len(s) - 1), c)
    ELSE s

\* s.split(sep) for a non-empty text sep: the pieces of s from position
\* start on, the search for the next occurrence of sep being at position n
RECURSIVE split_from(_, _, _, _)
split_from(s, sep, start, n) ==
    LET occ == {p \in n..(Len(s) - Len(sep) + 1) :
                   SubSeq(s, p, p + Len(sep) - 1) = sep}
    IN  IF occ = {} THEN <<Slice(s, start, Len(s))>>
        ELSE LET first == CHOOSE p \in occ : \A q \in occ : p <= q
             IN  <<Slice(s, start, first - 1)>>
                     \o split_from(s, sep, first + Len(sep),
                                   first + Len(sep))

\* s.split(sep): cut at every occurrence, left to right, and keep the
\* (possibly empty) piece after the last one
str_split(s, sep) == split_from(s, sep, 1, 1)

\* sep.join(parts)
RECURSIVE join(_, _)
join(sep, parts) ==
    IF Len(parts) = 0 THEN << >>
    ELSE IF Len(parts) = 1 THEN parts[1]
    ELSE parts[1] \o sep \o join(sep, Tail(parts))

\* iterating a str yields its characters, each a str of length one
CharsOf(s) == [n \in 1..Len(s) |-> <<s[n]>>]

----------------------------------------------------------------------------
(* Structural predicates *)

DELIMS == {",", ";", "|", "\t"}

is_quoted_cell(cell, quotechar) ==
    IF Len(cell) < 2 THEN FALSE
    ELSE cell[1] = quotechar /\ cell[Len(cell)] = quotechar

is_any_quoted_cell(cell) ==
    is_quoted_cell(cell, "'") \/ is_quoted_cell(cell, "\"")

is_any_partial_quoted_cell(cell) ==
    IF Len(cell) < 1 THEN FALSE
    ELSE \/ cell[1] = "\""
         \/ cell[1] = "'"
         \/ cell[Len(cell)] = "\""
         \/ cell[Len(cell)] = "'"

is_empty_quoted(cell, quotechar) ==
    Len(cell) = 2 /\ is_quoted_cell(cell, quotechar)

is_empty_unquoted(cell) == cell = << >>

is_any_empty(cell) ==
    \/ is_empty_unquoted(cell)
    \/ is_empty_quoted(cell, "'")
    \/ is_empty_quoted(cell, "\"")

has_delimiter(string, delim) == In(delim, string)

\* a variant that looks for the quotechar in the whole cell
has_quotes_anywhere(string, quotechar) == In(quotechar, string)

has_nested_quotes(string, quotechar) == In(quotechar, Interior(string))

\* common.escape.is_potential_escapechar: the backslash is the plausible
\* escape character
is_potential_escapechar(char, encoding) == char = "\\"

\* common.utils.pairwise: every adjacent character pair
pairwise(s) == [n \in 1..(Len(s) - 1) |-> <<s[n], s[n + 1]>>]

maybe_has_escapechar(data_, encoding, delim, quotechar) ==
    IF ~In(delim, data_) /\ ~In(quotechar, data_) THEN FALSE
    ELSE \E n \in 1..(Len(data_) - 1) :
             /\ pairwise(data_)[n][2] \in {delim, quotechar}
             /\ is_potential_escapechar(pairwise(data_)[n][1], encoding)

\* each while loop ends after one rstrip, which removes the whole run
strip_trailing_crnl(data_) == rstrip(rstrip(data_, "\n"), "\r")

every_row_has_delim(rows, delim) ==
    \A n \in 1..Len(rows) : has_delimiter(rows[n], delim)

ElementaryChars ==
    AlNum \cup {".", "_", "&", "-", "@", "+", "%", "(", ")", " ", "/"}

is_elementary(cell) ==
    Len(cell) >= 1 /\ \A n \in 1..Len(cell) : cell[n] \in ElementaryChars

more_than_one_row(rows) == Len(rows) > 1

\* without a line ending the str itself is returned: its "rows" are its
\* characters and its length is its number of characters
split_file(data_) ==
    LET d == strip_trailing_crnl(data_)
    IN  IF Contains(d, <<"\r", "\n">>) THEN str_split(d, <<"\r", "\n">>)
        ELSE IF In("\n", d) THEN str_split(d, <<"\n">>)
        ELSE IF In("\r", d) THEN str_split(d, <<"\r">>)
        ELSE CharsOf(d)

\* one pass of the character loop of split_row on the character c;
\* st is <<cells, current_cell, in_quotes>>
scan_char(c, delim, quotechar, st) ==
    IF c = delim /\ ~st[3] THEN <<Append(st[1], st[2]), << >>, st[3]>>
    ELSE IF c = quotechar THEN <<st[1], Append(st[2], c), ~st[3]>>
    ELSE <<st[1], Append(st[2], c), st[3]>>

\* the character loop of split_row over row[a..b], left to right, from the
\* state st: the first half of the characters, then, from the state they
\* leave, the second
RECURSIVE scan_row(_, _, _, _, _, _)
scan_row(row, a, b, delim, quotechar, st) ==
    IF a > b THEN st
    ELSE IF a = b THEN scan_char(row[a], delim, quotechar, st)
    ELSE LET mid == (a + b) \div 2
             half == scan_row(row, a, mid, delim, quotechar, st)
         IN  IF half[3] \in BOOLEAN
             THEN scan_row(row, mid + 1, b, delim, quotechar, half)
             ELSE half

\* a variant that flushes the last cell even when it is empty
split_row_flush_empty(row, delim, quotechar) ==
    IF quotechar = None \/ ~In(quotechar, row)
    THEN str_split(row, <<delim>>)
    ELSE LET r == scan_row(row, 1, Len(row), delim, quotechar,
                           <<<< >>, << >>, FALSE>>)
         IN  Append(r[1], r[2])

split_row(row, delim, quotechar) ==
    IF quotechar = None \/ ~In(quotechar, row)
    THEN str_split(row, <<delim>>)
    ELSE LET r == scan_row(row, 1, Len(row), delim, quotechar,
                           <<<< >>, << >>, FALSE>>)
         IN  IF r[2] # << >> THEN Append(r[1], r[2]) ELSE r[1]

multiple_cell_per_row(rows, delim, quotechar) ==
    \A n \in 1..Len(rows) : Len(split_row(rows[n], delim, quotechar)) # 1

even_rows(rows, delim, quotechar) ==
    Cardinality({Len(split_row(rows[n], delim, quotechar)) :
                     n \in 1..Len(rows)}) = 1

----------------------------------------------------------------------------
(* Form testers.  form_N is the function as written, is_form_N the name  *)
(* after decoration with form_escape_wrapper.                            *)

RECURSIVE Flatten(_)
Flatten(ss) == IF Len(ss) = 0 THEN << >> ELSE ss[1] \o Flatten(Tail(ss))

\* the first return reached in a loop body: errs holds, in execution order,
\* the reason each check would return, None where the check passes
first_return(errs) ==
    IF \E n \in 1..Len(errs) : errs[n] # None
    THEN errs[CHOOSE n \in 1..Len(errs) :
                  errs[n] # None /\ \A m \in 1..(n - 1) : errs[m] = None]
    ELSE None

\* the checks every tester makes on the rows before it looks at cells
rows_error(rows, delim, quotechar) ==
    IF ~every_row_has_delim(rows, delim) THEN "no_delim"
    ELSE IF ~multiple_cell_per_row(rows, delim, quotechar) THEN "single_cell"
    ELSE IF ~even_rows(rows, delim, quotechar) THEN "uneven_rows"
    ELSE IF ~more_than_one_row(rows) THEN "single_row"
    ELSE None

\* the cells of all rows, row by row
cells_of(rows, delim, quotechar) ==
    Flatten([n \in 1..Len(rows) |-> split_row(rows[n], delim, quotechar)])

\* a variant that runs the tester without the pre-check
form_unwrapped(data_, encoding, delim, quotechar, form_func) == form_func

form_escape_wrapper(data_, encoding, delim, quotechar, form_func) ==
    IF maybe_has_escapechar(data_, encoding, delim, quotechar)
    THEN <<FALSE, "maybe_escape">>
    ELSE form_func

form_1_cell(cell, quotechar) ==
    IF is_any_empty(cell) THEN "empty_cell"
    ELSE IF ~is_quoted_cell(cell, quotechar) THEN "unquoted_cell"
    ELSE IF has_nested_quotes(cell, quotechar) THEN "nested_quotes"
    ELSE None

form_1(data_, encoding, delim, quotechar) ==
    LET rows == split_file(data_)
        e == rows_error(rows, delim, quotechar)
        cells == cells_of(rows, delim, quotechar)
        c == first_return([n \in 1..Len(cells) |->
                               form_1_cell(cells[n], quotechar)])
    IN  IF e # None THEN <<FALSE, e>>
        ELSE IF c # None THEN <<FALSE, c>>
        ELSE <<TRUE, None>>

is_form_1(data_, encoding, delim, quotechar) ==
    form_escape_wrapper(data_, encoding, delim, quotechar,
                        form_1(data_, encoding, delim, quotechar))

form_13_prefix ==
    <<"w", "h", "a", "t", ",", "k", "i", "n", "d", ",", "b", "u", "n", "d",
      "l", "e", "I", "d", ",", "b", "u", "n", "d", "l", "e", "V", "e", "r",
      "s", "i", "o", "n", ",", "d", "e", "s", "c", "r", "i", "p", "t", "i",
      "o", "n", ",", "t", "i", "m", "e">>

form_13(data_, encoding, delim, quotechar) ==
    IF ~startswith(data_, form_13_prefix) THEN <<FALSE, "no_match">>
    ELSE IF quotechar = "" /\ In("\"", data_) THEN <<FALSE, "has_quote">>
    ELSE IF quotechar = "\"" /\ ~In("\"", data_)
    THEN <<FALSE, "has_no_quote">>
    ELSE <<TRUE, None>>

is_form_13(data_, encoding, delim, quotechar) ==
    form_escape_wrapper(data_, encoding, delim, quotechar,
                        form_13(data_, encoding, delim, quotechar))

\* the quote checks shared by the testers 17, 18 and 19; no_quote is the
\* reason code of the first of them ("no_qoute" in form 17)
header_quote_error(data_, quotechar, no_quote) ==
    IF Contains(data_, <<"'", ",", "'">>) THEN "single_quote"
    ELSE IF quotechar = "\""
    THEN IF ~(Contains(data_, <<"\"", ",">>) \/ Contains(data_, <<",", "\"">>))
         THEN no_quote
         ELSE None
    ELSE IF quotechar = ""
    THEN IF In("\"", data_) THEN "has_quote" ELSE None
    ELSE "unexpected_quote"

form_17_prefix ==
    <<"D", "e", "p", "a", "r", "t", "m", "e", "n", "t", " ", "F", "a", "m",
      "i", "l", "y", ",", "E", "n", "t", "i", "t", "y", ",", "D", "a", "t",
      "e", ",", "E", "x", "p", "e", "n", "s", "e", " ", "T", "y", "p", "e",
      ",", "E", "x", "p", "e", "n", "s", "e", " ", "A", "r", "e", "a", ",",
      "S", "u", "p", "p", "l", "i", "e", "r", ",", "T", "r", "a", "n", "s",
      "a", "c", "t", "i", "o", "n", " ", "N", "u", "m", "b", "e", "r", ",",
      "A", "m", "o", "u", "n", "t", ",", "V", "A", "T", " ", "R", "e", "g",
      "i", "s", "t", "r", "a", "t", "i", "o", "n", " ", "N", "u", "m", "b",
      "e", "r">>

form_17(data_, encoding, delim, quotechar) ==
    LET m == /\ Len(form_17_prefix) <= Len(data_)
             /\ LowerCase(SubSeq(data_, 1, Len(form_17_prefix)))
                    = LowerCase(form_17_prefix)
        e == header_quote_error(data_, quotechar, "no_qoute")
    IN  IF ~m THEN <<FALSE, "no_match">>
        ELSE IF e # None THEN <<FALSE, e>>
        ELSE <<TRUE, None>>

is_form_17(data_, encoding, delim, quotechar) ==
    form_escape_wrapper(data_, encoding, delim, quotechar,
                        form_17(data_, encoding, delim, quotechar))

form_18_prefix ==
    <<"C", "P", "S", " ", "o", "u", "t", "c", "o", "m", "e", "s", " ", "b",
      "y", " ", "p", "r", "i", "n", "c", "i", "p", "a", "l", " ", "o", "f",
      "f", "e", "n", "c", "e">>

form_18(data_, encoding, delim, quotechar) ==
    LET e == header_quote_error(data_, quotechar, "no_quote")
    IN  IF ~startswith(data_, form_18_prefix) THEN <<FALSE, "no_match">>
        ELSE IF e # None THEN <<FALSE, e>>
        ELSE <<TRUE, None>>

is_form_18(data_, encoding, delim, quotechar) ==
    form_escape_wrapper(data_, encoding, delim, quotechar,
                        form_18(data_, encoding, delim, quotechar))

form_19_prefix ==
    <<"R", "e", "c", "o", "r", "d", "K", "e", "y", ",", "S", "u", "r", "v",
      "e", "y", "K", "e", "y", ",", "S", "u", "r", "v", "e", "y", "N", "a",
      "m", "e">>

form_19(data_, encoding, delim, quotechar) ==
    LET e == header_quote_error(data_, quotechar, "no_quote")
    IN  IF ~startswith(data_, form_19_prefix) THEN <<FALSE, "no_match">>
        ELSE IF e # None THEN <<FALSE, e>>
        ELSE <<TRUE, None>>

is_form_19(data_, encoding, delim, quotechar) ==
    form_escape_wrapper(data_, encoding, delim, quotechar,
                        form_19(data_, encoding, delim, quotechar))

form_2_cell(cell) ==
    IF is_empty_unquoted(cell) THEN "empty_unquoted"
    ELSE IF is_any_quoted_cell(cell) THEN "quoted_cell"
    ELSE IF is_any_partial_quoted_cell(cell) THEN "partial_quoted_cell"
    ELSE IF ~is_elementary(cell) THEN "non_elementary"
    ELSE None

form_2(data_, encoding, delim, quotechar) ==
    LET rows == split_file(data_)
        e == rows_error(rows, delim, None)
        cells == cells_of(rows, delim, None)
        c == first_return([n \in 1..Len(cells) |-> form_2_cell(cells[n])])
    IN  IF is_form_13(data_, encoding, delim, quotechar)[1]
        THEN <<FALSE, "form_13">>
        ELSE IF is_form_18(data_, encoding, delim, quotechar)[1]
        THEN <<FALSE, "form_18">>
        ELSE IF is_form_17(data_, encoding, delim, quotechar)[1]
        THEN <<FALSE, "form_17">>
        ELSE IF e # None THEN <<FALSE, e>>
        ELSE IF c # None THEN <<FALSE, c>>
        ELSE <<TRUE, None>>

is_form_2(data_, encoding, delim, quotechar) ==
    form_escape_wrapper(data_, encoding, delim, quotechar,
                        form_2(data_, encoding, delim, quotechar))

form_3_cell(cell) ==
    IF is_any_quoted_cell(cell) THEN "quoted_cell"
    ELSE IF ~is_elementary(cell) THEN "non_elementary"
    ELSE None

form_3(data_, encoding, delim, quotechar) ==
    LET rows == split_file(data_)
        e == rows_error(rows, delim, None)
        cells == cells_of(rows, delim, None)
        c == first_return([n \in 1..Len(cells) |-> form_3_cell(cells[n])])
        cells_per_row == Len(str_split(rows[1], <<delim>>))
        expected == [n \in 1..(cells_per_row - 1) |-> delim]
        empty_delimited_row_count ==
            Cardinality({n \in 1..Len(rows) : rows[n] = expected})
    IN  IF e # None THEN <<FALSE, e>>
        ELSE IF c # None THEN <<FALSE, c>>
        ELSE IF empty_delimited_row_count = 0 THEN <<FALSE, "no_empty_rows">>
        ELSE <<TRUE, None>>

is_form_3(data_, encoding, delim, quotechar) ==
    form_escape_wrapper(data_, encoding, delim, quotechar,
                        form_3(data_, encoding, delim, quotechar))

form_4_cell(cell, delim, quotechar) ==
    IF is_quoted_cell(cell, quotechar) /\ ~has_delimiter(cell, delim)
    THEN "quoted_no_delim"
    ELSE IF is_any_empty(cell) THEN "empty_cell"
    ELSE IF ~is_quoted_cell(cell, quotechar) /\ ~is_elementary(cell)
    THEN "non_elementary"
    ELSE None

\* one row of the loop of form 4: the row check, then its cells
form_4_row(row, delim, quotechar) ==
    LET cells == split_row(row, delim, quotechar)
    IN  <<IF is_quoted_cell(row, quotechar) /\ ~In(quotechar, Interior(row))
          THEN "quoted_row" ELSE None>>
            \o [n \in 1..Len(cells) |-> form_4_cell(cells[n], delim, quotechar)]

form_4(data_, encoding, delim, quotechar) ==
    LET rows == split_file(data_)
        e == rows_error(rows, delim, quotechar)
        c == first_return(Flatten([n \in 1..Len(rows) |->
                                       form_4_row(rows[n], delim, quotechar)]))
        cells == cells_of(rows, delim, quotechar)
        found_quoted_with_delim ==
            \E n \in 1..Len(cells) :
                /\ is_quoted_cell(cells[n], quotechar)
                /\ has_delimiter(cells[n], delim)
    IN  IF is_form_18(data_, encoding, delim, quotechar)[1]
        THEN <<FALSE, "form_18">>
        ELSE IF is_form_17(data_, encoding, delim, quotechar)[1]
        THEN <<FALSE, "form_17">>
        ELSE IF e # None THEN <<FALSE, e>>
        ELSE IF c # None THEN <<FALSE, c>>
        ELSE IF ~found_quoted_with_delim THEN <<FALSE, "no_quoted_w_delim">>
        ELSE <<TRUE, None>>

is_form_4(data_, encoding, delim, quotechar) ==
    form_escape_wrapper(data_, encoding, delim, quotechar,
                        form_4(data_, encoding, delim, quotechar))

form_5_prefix ==
    <<";", "O", "r", "i", "g", "i", "n", "a", "l", "l", "y", " ", "d", "e",
      "v", "e", "l", "o", "p", "e", "d", " ", "b", "y", " ", "A", "n", "t",
      "h", "o", "n", "y", " ", "B", "o", "w", "d", "e", "n">>

form_5_readme ==
    <<"'", "R", "e", "a", "d", "m", "e", ".", "t", "x", "t", "'">>

form_5(data_, encoding, delim, quotechar) ==
    LET idxs == {n \in 1..Len(data_) : data_[n] = "'"}
        lo == CHOOSE n \in idxs : \A m \in idxs : n <= m
        hi == CHOOSE n \in idxs : \A m \in idxs : m <= n
    IN  IF startswith(data_, form_5_prefix) THEN <<TRUE, None>>
        ELSE IF In("\"", data_) THEN <<FALSE, "unexpected">>
        ELSE IF In("'", data_) /\ Cardinality(idxs) # 2
        THEN <<FALSE, "unexpected">>
        ELSE IF In("'", data_) /\ Slice(data_, lo, hi) # form_5_readme
        THEN <<FALSE, "unexpected">>
        ELSE <<FALSE, "not_railsim">>

is_form_5(data_, encoding, delim, quotechar) ==
    form_escape_wrapper(data_, encoding, delim, quotechar,
                        form_5(data_, encoding, delim, quotechar))

\* [A-Za-z0-9.\_&-]
form_6_chars == AlNum \cup {".", "_", "&", "-"}

form_6_row(row) ==
    IF is_any_quoted_cell(row) THEN "quoted_cell"
    ELSE IF \E n \in 1..Len(row) : row[n] \notin form_6_chars
    THEN "non_elementary"
    ELSE None

form_6(data_, encoding, delim, quotechar) ==
    LET rows == split_file(data_)
        c == first_return([n \in 1..Len(rows) |-> form_6_row(rows[n])])
    IN  IF ~more_than_one_row(rows) THEN <<FALSE, "single_row">>
        ELSE IF c # None THEN <<FALSE, c>>
        ELSE <<TRUE, None>>

is_form_6(data_, encoding, delim, quotechar) ==
    form_escape_wrapper(data_, encoding, delim, quotechar,
                        form_6(data_, encoding, delim, quotechar))

\* the rows of form 7 without their first and last character, joined
form_7_newdata(rows) ==
    join(<<"\n">>, [n \in 1..Len(rows) |-> Interior(rows[n])])

\* form 7 reaches its call of is_form_2.  A row tested here holds the
\* delimiter, so row[0] and row[-1] exist for every delimiter of DELIMS
form_7_calls_form_2(data_, delim, quotechar) ==
    LET rows == split_file(data_)
    IN  /\ every_row_has_delim(rows, delim)
        /\ more_than_one_row(rows)
        /\ \A n \in 1..Len(rows) :
               /\ Len(rows[n]) > 0
               /\ rows[n][1] = quotechar
               /\ rows[n][Len(rows[n])] = quotechar

form_7(data_, encoding, delim, quotechar) ==
    LET rows == split_file(data_)
    IN  IF ~every_row_has_delim(rows, delim) THEN <<FALSE, "no_delim">>
        ELSE IF ~more_than_one_row(rows) THEN <<FALSE, "single_row">>
        ELSE IF ~form_7_calls_form_2(data_, delim, quotechar)
        THEN <<FALSE, "not_quoted">>
        ELSE is_form_2(form_7_newdata(rows), encoding, delim, quotechar)

is_form_7(data_, encoding, delim, quotechar) ==
    form_escape_wrapper(data_, encoding, delim, quotechar,
                        form_7(data_, encoding, delim, quotechar))

form_8_cell(cell, quotechar) ==
    IF is_any_empty(cell) THEN "empty_cell"
    ELSE IF /\ ~is_quoted_cell(cell, quotechar)
            /\ ~is_any_quoted_cell(cell)
            /\ ~is_elementary(cell)
    THEN "non_elementary"
    ELSE None

form_8(data_, encoding, delim, quotechar) ==
    LET rows == split_file(data_)
        e == rows_error(rows, delim, quotechar)
        cells == cells_of(rows, delim, quotechar)
        c == first_return([n \in 1..Len(cells) |->
                               form_8_cell(cells[n], quotechar)])
        quoted_cells ==
            Cardinality({n \in 1..Len(cells) :
                             is_quoted_cell(cells[n], quotechar)})
        unquoted_cells ==
            Cardinality({n \in 1..Len(cells) :
                             /\ ~is_quoted_cell(cells[n], quotechar)
                             /\ ~is_any_quoted_cell(cells[n])})
    IN  IF is_form_4(data_, encoding, delim, quotechar)[1]
        THEN <<FALSE, "form_4">>
        ELSE IF is_form_13(data_, encoding, delim, quotechar)[1]
        THEN <<FALSE, "form_13">>
        ELSE IF is_form_18(data_, encoding, delim, quotechar)[1]
        THEN <<FALSE, "form_18">>
        ELSE IF is_form_17(data_, encoding, delim, quotechar)[1]
        THEN <<FALSE, "form_17">>
        ELSE IF e # None THEN <<FALSE, e>>
        ELSE IF c # None THEN <<FALSE, c>>
        ELSE IF quoted_cells = 0 \/ unquoted_cells = 0
        THEN <<FALSE, "not quoted/unquoted mix">>
        ELSE <<TRUE, None>>

is_form_8(data_, encoding, delim, quotechar) ==
    form_escape_wrapper(data_, encoding, delim, quotechar,
                        form_8(data_, encoding, delim, quotechar))

\* [A-Za-z0-9.\_&\- ]
form_9_chars == form_6_chars \cup {" "}

form_9_row(row, quotechar) ==
    IF ~is_quoted_cell(row, quotechar) THEN "not_quoted"
    ELSE IF \E n \in 2..(Len(row) - 1) : row[n] \notin form_9_chars
    THEN "non_elementary"
    ELSE None

form_9(data_, encoding, delim, quotechar) ==
    LET rows == split_file(data_)
        c == first_return([n \in 1..Len(rows) |->
                               form_9_row(rows[n], quotechar)])
    IN  IF ~more_than_one_row(rows) THEN <<FALSE, "single_row">>
        ELSE IF c # None THEN <<FALSE, c>>
        ELSE <<TRUE, None>>

is_form_9(data_, encoding, delim, quotechar) ==
    form_escape_wrapper(data_, encoding, delim, quotechar,
                        form_9(data_, encoding, delim, quotechar))

form_10_cell(cell, quotechar) ==
    IF is_empty_unquoted(cell) THEN "empty_unquoted"
    ELSE IF ~is_quoted_cell(cell, quotechar) THEN "unquoted_cell"
    ELSE IF has_nested_quotes(cell, quotechar) THEN "nested_quotes"
    ELSE None

form_10(data_, encoding, delim, quotechar) ==
    LET rows == split_file(data_)
        e == rows_error(rows, delim, quotechar)
        cells == cells_of(rows, delim, quotechar)
        c == first_return([n \in 1..Len(cells) |->
                               form_10_cell(cells[n], quotechar)])
        quoted_empty_count ==
            Cardinality({n \in 1..Len(cells) :
                             is_empty_quoted(cells[n], quotechar)})
    IN  IF e # None THEN <<FALSE, e>>
        ELSE IF c # None THEN <<FALSE, c>>
        ELSE IF quoted_empty_count = 0 THEN <<FALSE, "no_empty">>
        ELSE <<TRUE, None>>

is_form_10(data_, encoding, delim, quotechar) ==
    form_escape_wrapper(data_, encoding, delim, quotechar,
                        form_10(data_, encoding, delim, quotechar))

\* a variant that does not skip the empty cells
form_11_cell_no_skip(cell) ==
    IF is_any_quoted_cell(cell) THEN "quoted_cell"
    ELSE IF is_any_partial_quoted_cell(cell) THEN "partial_quoted_cell"
    ELSE IF ~is_elementary(cell) THEN "non_elementary"
    ELSE None

form_11_cell(cell) ==
    IF is_empty_unquoted(cell) THEN None
    ELSE IF is_any_quoted_cell(cell) THEN "quoted_cell"
    ELSE IF is_any_partial_quoted_cell(cell) THEN "partial_quoted_cell"
    ELSE IF ~is_elementary(cell) THEN "non_elementary"
    ELSE None

num_empty(cells) ==
    Cardinality({n \in 1..Len(cells) : is_empty_unquoted(cells[n])})

\* one row of the loop of form 11: its cells, then the count of empty ones
form_11_row(row, delim) ==
    LET cells == split_row(row, delim, None)
    IN  [n \in 1..Len(cells) |-> form_11_cell(cells[n])]
            \o <<IF num_empty(cells) > 1 THEN "many_empty" ELSE None>>

form_11(data_, encoding, delim, quotechar) ==
    LET rows == split_file(data_)
        e == rows_error(rows, delim, None)
        c == first_return(Flatten([n \in 1..Len(rows) |->
                                       form_11_row(rows[n], delim)]))
        total_empty == num_empty(cells_of(rows, delim, None))
    IN  IF is_form_13(data_, encoding, delim, quotechar)[1]
        THEN <<FALSE, "form_13">>
        ELSE IF is_form_17(data_, encoding, delim, quotechar)[1]
        THEN <<FALSE, "form_17">>
        ELSE IF e # None THEN <<FALSE, e>>
        ELSE IF c # None THEN <<FALSE, c>>
        ELSE IF total_empty = 0 THEN <<FALSE, "no_empty">>
        ELSE <<TRUE, None>>

is_form_11(data_, encoding, delim, quotechar) ==
    form_escape_wrapper(data_, encoding, delim, quotechar,
                        form_11(data_, encoding, delim, quotechar))

AllAlNum(s, a, b) == \A n \in a..b : s[n] \in AlNum

\* ",(male|female),([a-zA-Z0-9]+@[a-zA-Z0-9]+.com)" matches at offset p, the
\* word being g, the two names a and b characters long
form_12_match_at(s, p, g, a, b) ==
    LET w == <<",">> \o g \o <<",">>
        q == p + Len(w)
    IN  /\ q + a + b + 5 <= Len(s)
        /\ SubSeq(s, p + 1, q) = w
        /\ AllAlNum(s, q + 1, q + a)
        /\ s[q + a + 1] = "@"
        /\ AllAlNum(s, q + a + 2, q + a + b + 1)
        /\ s[q + a + b + 2] # "\n"
        /\ SubSeq(s, q + a + b + 3, q + a + b + 5) = <<"c", "o", "m">>

form_12(data_, encoding, delim, quotechar) ==
    IF In("\"", data_) \/ In("'", data_) THEN <<FALSE, "has_quote">>
    ELSE IF \E p \in 0..Len(data_), a \in 1..Len(data_), b \in 1..Len(data_) :
                \E g \in {<<"m", "a", "l", "e">>,
                          <<"f", "e", "m", "a", "l", "e">>} :
                    form_12_match_at(data_, p, g, a, b)
    THEN <<TRUE, None>>
    ELSE <<FALSE, "no_match">>

is_form_12(data_, encoding, delim, quotechar) ==
    form_escape_wrapper(data_, encoding, delim, quotechar,
                        form_12(data_, encoding, delim, quotechar))

form_14_prefix ==
    <<"F", "o", "r", "m", "a", "t", " ", "i", "s", " ", "t", "a", "b", " ",
      "s", "e", "p", "a", "r", "a", "t", "e", "d">>

form_14(data_, encoding, delim, quotechar) ==
    IF startswith(data_, form_14_prefix) THEN <<TRUE, None>>
    ELSE <<FALSE, "no_match">>

is_form_14(data_, encoding, delim, quotechar) ==
    form_escape_wrapper(data_, encoding, delim, quotechar,
                        form_14(data_, encoding, delim, quotechar))

form_15_prefix ==
    <<"F", "o", "r", "n", "e", "c", "e", "d", "o", "r", ";">>

form_15(data_, encoding, delim, quotechar) ==
    IF startswith(data_, form_15_prefix) THEN <<TRUE, None>>
    ELSE <<FALSE, "no_match">>

is_form_15(data_, encoding, delim, quotechar) ==
    form_escape_wrapper(data_, encoding, delim, quotechar,
                        form_15(data_, encoding, delim, quotechar))

----------------------------------------------------------------------------
(* The ID attribute.  Every tester starts with "is_form_N.ID = N", an      *)
(* assignment to the decorated function that runs only when the body runs. *)

\* the testers whose body starts when is_form_N is called: N itself unless
\* the escape check returns first, and the siblings the body calls
ID_plain(N, data_, encoding, delim, quotechar) ==
    IF maybe_has_escapechar(data_, encoding, delim, quotechar) THEN {}
    ELSE {N}

ID_after_18(data_, encoding, delim, quotechar) ==
    ID_plain(18, data_, encoding, delim, quotechar)
        \cup IF is_form_18(data_, encoding, delim, quotechar)[1] THEN {}
             ELSE ID_plain(17, data_, encoding, delim, quotechar)

ID_after_13(data_, encoding, delim, quotechar) ==
    ID_plain(13, data_, encoding, delim, quotechar)
        \cup IF is_form_13(data_, encoding, delim, quotechar)[1] THEN {}
             ELSE ID_after_18(data_, encoding, delim, quotechar)

ID_form_2(data_, encoding, delim, quotechar) ==
    IF maybe_has_escapechar(data_, encoding, delim, quotechar) THEN {}
    ELSE {2} \cup ID_after_13(data_, encoding, delim, quotechar)

ID_form_4(data_, encoding, delim, quotechar) ==
    IF maybe_has_escapechar(data_, encoding, delim, quotechar) THEN {}
    ELSE {4} \cup ID_after_18(data_, encoding, delim, quotechar)

ID_form_7(data_, encoding, delim, quotechar) ==
    IF maybe_has_escapechar(data_, encoding, delim, quotechar) THEN {}
    ELSE {7} \cup IF form_7_calls_form_2(data_, delim, quotechar)
                  THEN ID_form_2(form_7_newdata(split_file(data_)),
                                 encoding, delim, quotechar)
                  ELSE {}

ID_form_8(data_, encoding, delim, quotechar) ==
    IF maybe_has_escapechar(data_, encoding, delim, quotechar) THEN {}
    ELSE {8} \cup ID_form_4(data_, encoding, delim, quotechar)
             \cup IF is_form_4(data_, encoding, delim, quotechar)[1] THEN {}
                  ELSE ID_after_13(data_, encoding, delim, quotechar)

ID_form_11(data_, encoding, delim, quotechar) ==
    IF maybe_has_escapechar(data_, encoding, delim, quotechar) THEN {}
    ELSE {11} \cup ID_plain(13, data_, encoding, delim, quotechar)
              \cup IF is_form_13(data_, encoding, delim, quotechar)[1] THEN {}
                   ELSE ID_plain(17, data_, encoding, delim, quotechar)

ID_assigned(N, data_, encoding, delim, quotechar) ==
    CASE N = 2 -> ID_form_2(data_, encoding, delim, quotechar)
      [] N = 4 -> ID_form_4(data_, encoding, delim, quotechar)
      [] N = 7 -> ID_form_7(data_, encoding, delim, quotechar)
      [] N = 8 -> ID_form_8(data_, encoding, delim, quotechar)
      [] N = 11 -> ID_form_11(data_, encoding, delim, quotechar)
      [] OTHER -> ID_plain(N, data_, encoding, delim, quotechar)

----------------------------------------------------------------------------
(* detect_form *)

\* the testers, named by the number in their name
form_func(N, data_, encoding, delim, quotechar) ==
    CASE N = 1 -> is_form_1(data_, encoding, delim, quotechar)
      [] N = 2 -> is_form_2(data_, encoding, delim, quotechar)
      [] N = 3 -> is_form_3(data_, encoding, delim, quotechar)
      [] N = 4 -> is_form_4(data_, encoding, delim, quotechar)
      [] N = 5 -> is_form_5(data_, encoding, delim, quotechar)
      [] N = 6 -> is_form_6(data_, encoding, delim, quotechar)
      [] N = 7 -> is_form_7(data_, encoding, delim, quotechar)
      [] N = 8 -> is_form_8(data_, encoding, delim, quotechar)
      [] N = 9 -> is_form_9(data_, encoding, delim, quotechar)
      [] N = 10 -> is_form_10(data_, encoding, delim, quotechar)
      [] N = 11 -> is_form_11(data_, encoding, delim, quotechar)
      [] N = 12 -> is_form_12(data_, encoding, delim, quotechar)
      [] N = 13 -> is_form_13(data_, encoding, delim, quotechar)
      [] N = 14 -> is_form_14(data_, encoding, delim, quotechar)
      [] N = 15 -> is_form_15(data_, encoding, delim, quotechar)
      [] N = 17 -> is_form_17(data_, encoding, delim, quotechar)
      [] N = 18 -> is_form_18(data_, encoding, delim, quotechar)
      [] N = 19 -> is_form_19(data_, encoding, delim, quotechar)

Testers == {1, 2, 3, 4, 5, 6, 7, 8, 9, 10, 11, 12, 13, 14, 15, 17, 18, 19}

\* the orders in which a process may iterate the set DELIMS
DelimOrders ==
    {s \in [1..Cardinality(DELIMS) -> DELIMS] : Range(s) = DELIMS}

option_dict_1(order) == [delim |-> order, quotechar |-> <<"\"", "'">>]

option_dict_2(order) == [delim |-> order, quotechar |-> <<"">>]

option_dict_4 == [delim |-> <<"">>, quotechar |-> <<"\"", "'">>]

forms(order) ==
    <<[func |-> 1, options |-> option_dict_1(order)],
      [func |-> 2, options |-> option_dict_2(order)],
      [func |-> 4, options |-> option_dict_1(order)],
      [func |-> 5, options |-> [delim |-> <<",">>, quotechar |-> <<"">>]],
      [func |-> 6, options |-> [delim |-> <<"">>, quotechar |-> <<"">>]],
      [func |-> 7, options |-> option_dict_1(order)],
      [func |-> 8, options |-> option_dict_1(order)],
      [func |-> 9, options |-> option_dict_4],
      [func |-> 10, options |-> option_dict_1(order)],
      [func |-> 11, options |-> option_dict_2(order)],
      [func |-> 12, options |-> [delim |-> <<",">>, quotechar |-> <<"">>]],
      [func |-> 13, options |-> [delim |-> <<",">>,
                                 quotechar |-> <<"\"", "">>]],
      [func |-> 14, options |-> [delim |-> <<"\t">>, quotechar |-> <<"">>]],
      [func |-> 15, options |-> [delim |-> <<";">>, quotechar |-> <<"">>]],
      [func |-> 17, options |-> [delim |-> <<",">>,
                                 quotechar |-> <<"", "\"">>]],
      [func |-> 18, options |-> [delim |-> <<",">>,
                                 quotechar |-> <<"", "\"">>]],
      [func |-> 19, options |-> [delim |-> <<",">>,
                                 quotechar |-> <<"", "\"">>]]>>

\* dict_product: the delimiters in the outer loop, the quotechars inside
dict_product(dicts) ==
    [n \in 1..(Len(dicts.delim) * Len(dicts.quotechar)) |->
        [delim |-> dicts.delim[((n - 1) \div Len(dicts.quotechar)) + 1],
         quotechar |-> dicts.quotechar[((n - 1) % Len(dicts.quotechar)) + 1]]]

\* the file name and the encoding get_encoding finds for it
filename == "file.csv"

get_encoding == "utf-8"

EmptyDict == << >>

record_form(files, form_id, name, config) ==
    Append(files, [form_id |-> form_id, filename |-> name, config |-> config])

----------------------------------------------------------------------------
(* The files detect_form is run on *)

MaxLen == 2

RECURSIVE Texts(_, _)
Texts(chars, n) ==
    IF n = 0 THEN {<< >>}
    ELSE LET shorter == Texts(chars, n - 1)
         IN  shorter \cup {Append(t, c) : t \in shorter, c \in chars}

\* "a","b"\n"c","d"
scenario_1 ==
    <<"\"", "a", "\"", ",", "\"", "b", "\"", "\n",
      "\"", "c", "\"", ",", "\"", "d", "\"">>

\* a,b,,d\n1,2,,4
scenario_2 ==
    <<"a", ",", "b", ",", ",", "d", "\n", "1", ",", "2", ",", ",", "4">>

\* hello
scenario_3 == <<"h", "e", "l", "l", "o">>

\* "a\,b","c"\n"d","e"
scenario_4 ==
    <<"\"", "a", "\\", ",", "b", "\"", ",", "\"", "c", "\"", "\n",
      "\"", "d", "\"", ",", "\"", "e", "\"">>

\* ",",","\n",",","
quoted_delims ==
    <<"\"", ",", "\"", ",", "\"", ",", "\"", "\n",
      "\"", ",", "\"", ",", "\"", ",", "\"">>

DataChars == {"a", ",", "\n"}

Contents ==
    {scenario_1, scenario_2, scenario_3, scenario_4, quoted_delims}
        \cup Texts(DataChars, MaxLen)

----------------------------------------------------------------------------
(* detect_form, one action per step *)

Init ==
    /\ pc = "start"
    /\ record_result \in BOOLEAN
    /\ verbose \in BOOLEAN
    /\ delim_order \in DelimOrders
    /\ loaded = FALSE
    /\ data = << >>
    /\ i = 1
    /\ j = 1
    /\ status = FALSE
    /\ error = None
    /\ detected_forms = << >>
    /\ form_files = << >>
    /\ stdout = << >>
    /\ ID = [N \in Testers |-> 0]
    /\ result = [verdict |-> "pending", ID |-> 0, params |-> EmptyDict]
    /\ raised = None
    /\ fn = <<None, 0>>
    /\ arg_data = << >>
    /\ arg_delim = None
    /\ arg_quotechar = None
    /\ ret = << >>

\* a variant of the load failure that writes the form-0 record
LoadFailRecorded ==
    /\ pc = "start"
    /\ pc' = "done"
    /\ result' = [verdict |-> "FAIL", ID |-> 0, params |-> EmptyDict]
    /\ form_files' = record_form(form_files, 0, filename, EmptyDict)
    /\ UNCHANGED <<record_result, verbose, delim_order, loaded, data, i, j,
                   status, error, detected_forms, stdout, ID, raised>>
    /\ UNCHANGED fn_vars

\* load_file returns None: return "FAIL", {}
LoadFail ==
    /\ pc = "start"
    /\ pc' = "done"
    /\ result' = [verdict |-> "FAIL", ID |-> 0, params |-> EmptyDict]
    /\ UNCHANGED <<record_result, verbose, delim_order, loaded, data, i, j,
                   status, error, detected_forms, form_files, stdout, ID,
                   raised>>
    /\ UNCHANGED fn_vars

\* load_file returns the decoded content
LoadOk ==
    /\ pc = "start"
    /\ \E c \in Contents : data' = c
    /\ loaded' = TRUE
    /\ pc' = "loop"
    /\ UNCHANGED <<record_result, verbose, delim_order, i, j, status, error,
                   detected_forms, form_files, stdout, ID, result, raised>>
    /\ UNCHANGED fn_vars

\* the tester and the options of the current iteration
cur_func == forms(delim_order)[i].func

cur_opt == dict_product(forms(delim_order)[i].options)[j]

cur_call ==
    form_func(cur_func, data, get_encoding, cur_opt.delim, cur_opt.quotechar)

\* the testers whose ID attribute that call assigns
cur_assigned ==
    ID_assigned(cur_func, data, get_encoding, cur_opt.delim, cur_opt.quotechar)

\* the ID attributes once the testers of the set have assigned theirs
ID_after(set) == [N \in Testers |-> IF N \in set THEN N ELSE ID[N]]

\* on to the next option, the next entry of forms, or out of the loop
NextIteration ==
    IF j < Len(dict_product(forms(delim_order)[i].options))
    THEN /\ j' = j + 1
         /\ UNCHANGED <<i, pc>>
    ELSE /\ j' = 1
         /\ i' = i + 1
         /\ pc' = IF i < Len(forms(delim_order)) THEN "loop" ELSE "finish"

\* status is true: set escapechar, record the form, append the match
FormPassed ==
    /\ pc = "loop"
    /\ \E r \in {cur_call}, set \in {cur_assigned} :
           /\ r[1]
           /\ status' = r[1]
           /\ error' = r[2]
           /\ ID' = ID_after(set)
    /\ LET opt == [delim |-> cur_opt.delim, quotechar |-> cur_opt.quotechar,
                   escapechar |-> ""]
       IN  /\ form_files' =
                  IF record_result
                  THEN record_form(form_files, ID'[cur_func], filename, opt)
                  ELSE form_files
           /\ detected_forms' = Append(detected_forms, <<ID'[cur_func], opt>>)
    /\ NextIteration
    /\ UNCHANGED <<record_result, verbose, delim_order, loaded, data, stdout,
                   result, raised>>
    /\ UNCHANGED fn_vars

\* status is false and verbose is set: print the ID, the options, the reason
FormFailedVerbose ==
    /\ pc = "loop"
    /\ verbose
    /\ \E r \in {cur_call}, set \in {cur_assigned} :
           /\ ~r[1]
           /\ ID_after(set)[cur_func] # 0
           /\ status' = r[1]
           /\ error' = r[2]
           /\ ID' = ID_after(set)
           /\ stdout' = Append(stdout, <<"Not form", ID'[cur_func], cur_opt,
                                         r[2]>>)
    /\ NextIteration
    /\ UNCHANGED <<record_result, verbose, delim_order, loaded, data,
                   detected_forms, form_files, result, raised>>
    /\ UNCHANGED fn_vars

\* status is false and verbose is set, but the tester has no ID attribute:
\* form_func.ID raises AttributeError
FormFailedNoID ==
    /\ pc = "loop"
    /\ verbose
    /\ \E r \in {cur_call}, set \in {cur_assigned} :
           /\ ~r[1]
           /\ ID_after(set)[cur_func] = 0
           /\ status' = r[1]
           /\ error' = r[2]
           /\ ID' = ID_after(set)
    /\ raised' = "AttributeError"
    /\ pc' = "done"
    /\ UNCHANGED <<record_result, verbose, delim_order, loaded, data, i, j,
                   detected_forms, form_files, stdout, result>>
    /\ UNCHANGED fn_vars

\* status is false and verbose is not set
FormFailedQuiet ==
    /\ pc = "loop"
    /\ ~verbose
    /\ \E r \in {cur_call}, set \in {cur_assigned} :
           /\ ~r[1]
           /\ status' = r[1]
           /\ error' = r[2]
           /\ ID' = ID_after(set)
    /\ NextIteration
    /\ UNCHANGED <<record_result, verbose, delim_order, loaded, data,
                   detected_forms, form_files, stdout, result, raised>>
    /\ UNCHANGED fn_vars

\* len(detected_forms) == 0
NoForm ==
    /\ pc = "finish"
    /\ Len(detected_forms) = 0
    /\ form_files' = IF record_result
                     THEN record_form(form_files, 0, filename, EmptyDict)
                     ELSE form_files
    /\ stdout' = IF verbose THEN Append(stdout, <<"NONE", filename>>)
                 ELSE stdout
    /\ result' = [verdict |-> "None", ID |-> 0, params |-> EmptyDict]
    /\ pc' = "done"
    /\ UNCHANGED <<record_result, verbose, delim_order, loaded, data, i, j,
                   status, error, detected_forms, ID, raised>>
    /\ UNCHANGED fn_vars

\* len(detected_forms) == 1
OneForm ==
    /\ pc = "finish"
    /\ Len(detected_forms) = 1
    /\ stdout' = IF verbose
                 THEN Append(stdout, <<"FORM", detected_forms[1][1], filename>>)
                 ELSE stdout
    /\ result' = [verdict |-> "FORM", ID |-> detected_forms[1][1],
                  params |-> detected_forms[1][2]]
    /\ pc' = "done"
    /\ UNCHANGED <<record_result, verbose, delim_order, loaded, data, i, j,
                   status, error, detected_forms, form_files, ID, raised>>
    /\ UNCHANGED fn_vars

\* a variant that returns the first of several matches
FirstOfMultipleForms ==
    /\ pc = "finish"
    /\ Len(detected_forms) > 1
    /\ result' = [verdict |-> "FORM", ID |-> detected_forms[1][1],
                  params |-> detected_forms[1][2]]
    /\ pc' = "done"
    /\ UNCHANGED <<record_result, verbose, delim_order, loaded, data, i, j,
                   status, error, detected_forms, form_files, stdout, ID,
                   raised>>
    /\ UNCHANGED fn_vars

\* otherwise: raise ValueError
MultipleForms ==
    /\ pc = "finish"
    /\ Len(detected_forms) > 1
    /\ raised' = "ValueError"
    /\ pc' = "done"
    /\ UNCHANGED <<record_result, verbose, delim_order, loaded, data, i, j,
                   status, error, detected_forms, form_files, stdout, ID,
                   result>>
    /\ UNCHANGED fn_vars

Next ==
    \/ LoadFail
    \/ LoadOk
    \/ FormPassed
    \/ FormFailedVerbose
    \/ FormFailedNoID
    \/ FormFailedQuiet
    \/ NoForm
    \/ OneForm
    \/ MultipleForms

Spec == Init /\ [][Next]_vars

----------------------------------------------------------------------------
(* The functions on their own: one call of split_file, split_row or a     *)
(* tester on a text drawn from a bounded set.                              *)

MaxLineLen == 5

MaxRowLen == 4

MaxFormLen == 3

LineChars == {"a", "\n", "\r"}

RowChars == {"a", ",", "\""}

FormChars == {"a", ",", "\n", "\"", "\\"}

LineTexts == Texts(LineChars, MaxLineLen)

RowTexts == Texts(RowChars, MaxRowLen)

\* a,b
row_plain == <<"a", ",", "b">>

\* "a",b
row_quoted == <<"\"", "a", "\"", ",", "b">>

\* a,b,c,d,"x,y",f
row_six ==
    <<"a", ",", "b", ",", "c", ",", "d", ",",
      "\"", "x", ",", "y", "\"", ",", "f">>

\* files that open with the header line of form 13, 17 or 18
HeaderTexts ==
    {p \o <<"\n">> \o t :
        p \in {form_13_prefix, form_17_prefix, form_18_prefix},
        t \in {row_plain, row_quoted, row_six}}

FormTexts ==
    {scenario_1, scenario_2, scenario_3, scenario_4, quoted_delims}
        \cup HeaderTexts
        \cup Texts(FormChars, MaxFormLen)

\* the (tester, delim, quotechar) calls detect_form makes
CatalogueCalls ==
    LET fs == forms(<<",", ";", "|", "\t">>)
    IN  UNION {{<<fs[n].func, opt.delim, opt.quotechar>> :
                    opt \in Range(dict_product(fs[n].options))} :
                   n \in 1..Len(fs)}

\* those calls, and is_form_3 (which is in no entry of forms) with the
\* options of the testers of unquoted files
FormCalls == CatalogueCalls \cup {<<3, d, "">> : d \in DELIMS}

InitFn ==
    /\ pc = "fn"
    /\ record_result = FALSE
    /\ verbose = FALSE
    /\ delim_order = <<",", ";", "|", "\t">>
    /\ loaded = FALSE
    /\ data = << >>
    /\ i = 1
    /\ j = 1
    /\ status = FALSE
    /\ error = None
    /\ detected_forms = << >>
    /\ form_files = << >>
    /\ stdout = << >>
    /\ ID = [N \in Testers |-> 0]
    /\ result = [verdict |-> "pending", ID |-> 0, params |-> EmptyDict]
    /\ raised = None
    /\ fn = <<None, 0>>
    /\ arg_data \in LineTexts \cup RowTexts \cup FormTexts
    /\ arg_delim = None
    /\ arg_quotechar = None
    /\ ret = << >>

call_split_file ==
    /\ fn[1] = None
    /\ arg_data \in LineTexts
    /\ fn' = <<"split_file", 0>>
    /\ ret' = split_file(arg_data)
    /\ UNCHANGED <<arg_data, arg_delim, arg_quotechar>>
    /\ UNCHANGED detect_vars

call_split_row ==
    /\ fn[1] = None
    /\ arg_data \in RowTexts
    /\ \E d \in DELIMS, q \in {None, "", "\"", "'"} :
           /\ arg_delim' = d
           /\ arg_quotechar' = q
           /\ ret' = split_row(arg_data, d, q)
    /\ fn' = <<"split_row", 0>>
    /\ UNCHANGED arg_data
    /\ UNCHANGED detect_vars

call_is_form ==
    /\ fn[1] = None
    /\ arg_data \in FormTexts
    /\ \E c \in FormCalls :
           /\ fn' = <<"is_form", c[1]>>
           /\ arg_delim' = c[2]
           /\ arg_quotechar' = c[3]
           /\ ret' = form_func(c[1], arg_data, get_encoding, c[2], c[3])
    /\ UNCHANGED arg_data
    /\ UNCHANGED detect_vars

NextFn ==
    \/ call_split_file
    \/ call_split_row
    \/ call_is_form

SpecFn == InitFn /\ [][NextFn]_vars

----------------------------------------------------------------------------
(* Properties *)

\* all entries of forms have been run: the loop of detect_form has ended
LoopDone == loaded /\ pc \in {"finish", "done"} /\ raised # "AttributeError"

\* detect_form has returned or raised on loaded content
RunOver == loaded /\ pc = "done"

params_1 == [delim |-> ",", quotechar |-> "\"", escapechar |-> ""]

\* C1: for every content at most one (tester, options) combination of the
\* catalogue returns a positive match, so detect_form never raises its
\* "multiple forms" ValueError.
C1_AtMostOneMatch == Len(detected_forms) <= 1 /\ raised # "ValueError"

\* C2 as stated: once the loop has run every combination, zero matches give
\* (None, {}) with a form-0 record written, one match gives that match's ID
\* and options with escapechar "", and two or more matches raise an error
\* without any match being returned.
C2_OutcomeRecordsFormZero ==
    (RunOver /\ LoopDone) =>
        /\ Len(detected_forms) = 0 =>
               /\ result = [verdict |-> "None", ID |-> 0, params |-> EmptyDict]
               /\ raised = None
               /\ \E n \in 1..Len(form_files) : form_files[n].form_id = 0
        /\ Len(detected_forms) = 1 =>
               /\ result = [verdict |-> "FORM", ID |-> detected_forms[1][1],
                            params |-> detected_forms[1][2]]
               /\ result.params.escapechar = ""
               /\ raised = None
        /\ Len(detected_forms) >= 2 =>
               /\ raised = "ValueError"
               /\ result.verdict = "pending"

\* C2 as amended: the same, the form-0 record being written exactly when
\* record_result is set.
C2_OutcomeByMatchCount ==
    (RunOver /\ LoopDone) =>
        /\ Len(detected_forms) = 0 =>
               /\ result = [verdict |-> "None", ID |-> 0, params |-> EmptyDict]
               /\ raised = None
               /\ form_files =
                      IF record_result
                      THEN <<[form_id |-> 0, filename |-> filename,
                              config |-> EmptyDict]>>
                      ELSE << >>
        /\ Len(detected_forms) = 1 =>
               /\ result = [verdict |-> "FORM", ID |-> detected_forms[1][1],
                            params |-> detected_forms[1][2]]
               /\ result.params.escapechar = ""
               /\ raised = None
        /\ Len(detected_forms) >= 2 =>
               /\ raised = "ValueError"
               /\ result.verdict = "pending"

\* a run that ended with no match and wrote the form-0 record
C2_Witness ==
    /\ RunOver
    /\ LoopDone
    /\ Len(detected_forms) = 0
    /\ record_result
    /\ result.verdict = "None"
    /\ Len(form_files) = 1

\* C3: when load_file returns None, detect_form returns "FAIL", {} without
\* calling a tester and without writing any record.
C3_LoadFailure ==
    (pc = "done" /\ ~loaded) =>
        /\ result = [verdict |-> "FAIL", ID |-> 0, params |-> EmptyDict]
        /\ raised = None
        /\ form_files = << >>
        /\ detected_forms = << >>
        /\ stdout = << >>
        /\ i = 1 /\ j = 1
        /\ \A N \in Testers : ID[N] = 0

\* a run whose load failed
C3_Witness == pc = "done" /\ ~loaded /\ result.verdict = "FAIL"

\* C4: a tester called with options for which maybe_has_escapechar is true
\* returns (False, "maybe_escape"); so a positive match implies the check was
\* false for those options.
C4_EscapeShortCircuit ==
    fn[1] = "is_form" =>
        /\ maybe_has_escapechar(arg_data, get_encoding, arg_delim,
                                arg_quotechar)
               => ret = <<FALSE, "maybe_escape">>
        /\ ret[1] => ~maybe_has_escapechar(arg_data, get_encoding, arg_delim,
                                           arg_quotechar)

\* a tester short-circuited on a file that has the shape of form 1
C4_Witness ==
    /\ fn = <<"is_form", 1>>
    /\ arg_data = scenario_4
    /\ arg_delim = ","
    /\ arg_quotechar = "\""
    /\ ret = <<FALSE, "maybe_escape">>

\* C5: with record_result set, a run on loaded content that ends with a
\* match leaves exactly that match's record, one that ends with no match
\* exactly the form-0 record, and no run leaves more than one record.
C5_OneRecordPerRun ==
    record_result =>
        /\ Len(form_files) <= 1
        /\ (RunOver /\ result.verdict = "FORM") =>
               form_files = <<[form_id |-> result.ID, filename |-> filename,
                               config |-> result.params]>>
        /\ (RunOver /\ result.verdict = "None") =>
               form_files = <<[form_id |-> 0, filename |-> filename,
                               config |-> EmptyDict]>>

\* C6: with verbose set, every combination found not matched is printed
\* with the tester's ID, the options and the reason, and the loop goes on;
\* reading the ID never fails.
C6_VerboseReportsEveryFailure ==
    /\ raised # "AttributeError"
    /\ (verbose /\ loaded /\ pc = "finish") =>
           Len(stdout) + Len(detected_forms) = Cardinality(CatalogueCalls)

\* the file has no character outside the line endings
OnlyLineEndings(s) == \A n \in 1..Len(s) : s[n] \in {"\n", "\r"}

\* the file uses one line ending: LF, CR or CRLF
OneLineEnding(s) ==
    \/ ~In("\r", s)
    \/ ~In("\n", s)
    \/ \A n \in 1..Len(s) :
           /\ s[n] = "\r" => (n < Len(s) /\ s[n + 1] = "\n")
           /\ s[n] = "\n" => (n > 1 /\ s[n - 1] = "\r")

\* C7: for LF, CR and CRLF content with a character that is no line ending,
\* the last row split_file returns is not empty.
C7_NoEmptyTrailingRow ==
    (fn[1] = "split_file" /\ OneLineEnding(arg_data)
         /\ ~OnlyLineEndings(arg_data)) =>
        ret[Len(ret)] # << >>

\* the cells of row between the occurrences of delim, found by position
delim_positions(row, delim) == {n \in 1..Len(row) : row[n] = delim}

nth_position(pos, m) ==
    CHOOSE n \in pos : Cardinality({l \in pos : l < n}) = m - 1

NaiveCells(row, delim) ==
    LET pos == delim_positions(row, delim)
        k == Cardinality(pos)
    IN  [m \in 1..(k + 1) |->
            Slice(row,
                  IF m = 1 THEN 1 ELSE nth_position(pos, m - 1) + 1,
                  IF m = k + 1 THEN Len(row) ELSE nth_position(pos, m) - 1)]

\* C8: when quotechar is None or "" or does not occur in the row, split_row
\* returns the cells of the naive split on every delimiter.
C8_NaiveWhenNoQuotechar ==
    (fn[1] = "split_row"
         /\ (arg_quotechar \in {None, ""}
                 \/ \A n \in 1..Len(arg_data) : arg_data[n] # arg_quotechar)) =>
        ret = NaiveCells(arg_data, arg_delim)

\* C9: on "a","b"\n"c","d" the form-1 tester returns (True, None) for delim
\* "," and quotechar '"', and detect_form returns form 1 with these options
\* and escapechar "", no other combination matching.
C9_Scenario1 ==
    (loaded /\ data = scenario_1) =>
        /\ is_form_1(data, get_encoding, ",", "\"") = <<TRUE, None>>
        /\ raised = None
        /\ \A n \in 1..Len(detected_forms) :
               detected_forms[n] = <<1, params_1>>
        /\ pc = "finish" => detected_forms = <<<<1, params_1>>>>
        /\ pc = "done" =>
               result = [verdict |-> "FORM", ID |-> 1, params |-> params_1]

\* detect_form has returned form 1 for scenario 1
C9_Witness ==
    /\ RunOver
    /\ data = scenario_1
    /\ result.verdict = "FORM"
    /\ result.ID = 1
    /\ status = FALSE

\* C10: on a,b,,d\n1,2,,4 with delim "," and no quotechar, the form-11 tester
\* returns a positive match and the form-3 tester returns not matched.
C10_Scenario2 ==
    (fn[1] = "is_form" /\ arg_data = scenario_2 /\ arg_delim = ","
         /\ arg_quotechar = "") =>
        /\ fn[2] = 11 => ret = <<TRUE, None>>
        /\ fn[2] = 3 => ret[1] = FALSE

\* the form-11 tester has matched scenario 2
C10_Witness ==
    /\ fn = <<"is_form", 11>>
    /\ arg_data = scenario_2
    /\ arg_delim = ","
    /\ arg_quotechar = ""
    /\ ret[1]

\* no line ending is left in the content once strip_trailing_crnl has run
NoLineEndingLeft(s) ==
    LET t == strip_trailing_crnl(s)
    IN  \A n \in 1..Len(t) : t[n] \notin {"\n", "\r"}

\* the testers that return "single_row"
MultiRowTesters == {1, 2, 3, 4, 6, 7, 8, 9, 10, 11}

\* C11: for content with fewer than two rows (empty, or without a line
\* ending once the trailing ones are stripped) more_than_one_row of the rows
\* of split_file is false, and each of the testers 1, 2, 3, 4, 6, 7, 8, 9, 10
\* and 11 that is not stopped by the escape pre-check returns
\* (False, "single_row").
C11_SingleRowRejected ==
    NoLineEndingLeft(arg_data) =>
        /\ fn[1] = "split_file" => ~more_than_one_row(ret)
        /\ (fn[1] = "is_form" /\ fn[2] \in MultiRowTesters
                /\ ~maybe_has_escapechar(arg_data, get_encoding, arg_delim,
                                         arg_quotechar)) =>
               ret = <<FALSE, "single_row">>

\* the content is one line of letters and digits
OneAlNumLine(s) == Len(s) > 0 /\ \A n \in 1..Len(s) : s[n] \in AlNum

\* C12: on a single line of letters and digits, such as hello, no combination
\* of the catalogue matches and detect_form returns the no-form verdict.
C12_SingleLineNoMatch ==
    (loaded /\ OneAlNumLine(data)) =>
        /\ detected_forms = << >>
        /\ raised = None
        /\ pc = "done" =>
               result = [verdict |-> "None", ID |-> 0, params |-> EmptyDict]

\* the delimiter occurrences of the row that are outside quotes
UnquotedDelims(row, delim, quotechar) ==
    {n \in 1..Len(row) :
        /\ row[n] = delim
        /\ Cardinality({m \in 1..(n - 1) : row[m] = quotechar}) % 2 = 0}

\* the row ends exactly on a delimiter that is outside quotes
EndsOnDelimiter(row, delim, quotechar) ==
    Len(row) > 0 /\ Len(row) \in UnquotedDelims(row, delim, quotechar)

\* C13 as stated: for every quotechar value, a row that ends on a delimiter
\* outside quotes gives no trailing empty cell: the last cell split_row
\* returns is not empty.
C13_LastCellNotEmpty ==
    (fn[1] = "split_row"
         /\ EndsOnDelimiter(arg_data, arg_delim, arg_quotechar)) =>
        /\ Len(ret) > 0
        /\ ret[Len(ret)] # << >>

\* C13 as amended: for a row that ends on a delimiter outside quotes, the
\* scan (quotechar "" or a quotechar that occurs in the row) returns one cell
\* per delimiter outside quotes and none for the empty text after the last;
\* the naive split (quotechar None or not in the row) returns one cell more
\* than there are delimiters, the last one empty.
C13_TrailingCellByBranch ==
    (fn[1] = "split_row"
         /\ EndsOnDelimiter(arg_data, arg_delim, arg_quotechar)) =>
        IF arg_quotechar = ""
               \/ \E n \in 1..Len(arg_data) : arg_data[n] = arg_quotechar
        THEN Len(ret) = Cardinality(UnquotedDelims(arg_data, arg_delim,
                                                    arg_quotechar))
        ELSE /\ Len(ret) = Cardinality(delim_positions(arg_data,
                                                       arg_delim)) + 1
             /\ ret[Len(ret)] = << >>

\* the row ",", split with the double quote: one cell, nothing after it
C13_Witness ==
    /\ fn[1] = "split_row"
    /\ arg_data = <<"\"", ",", "\"", ",">>
    /\ arg_delim = ","
    /\ arg_quotechar = "\""
    /\ ret = <<<<"\"", ",", "\"">>>>

\* the testers a tester calls to rule itself out
Excluded(N) ==
    CASE N = 2 -> {13, 17, 18}
      [] N = 4 -> {17, 18}
      [] N = 8 -> {4, 13, 17, 18}
      [] N = 11 -> {13, 17}

\* the reason code that names a tester
SiblingName(N) ==
    CASE N = 4 -> "form_4"
      [] N = 13 -> "form_13"
      [] N = 17 -> "form_17"
      [] N = 18 -> "form_18"

\* C14: called with the same arguments, tester 2 matches only if 13, 17 and
\* 18 do not, tester 4 only if 17 and 18 do not, tester 8 only if 4, 13, 17
\* and 18 do not, tester 11 only if 13 and 17 do not; and when an excluded
\* tester matches, the reason code returned names that tester.
C14_ExclusionNamesSibling ==
    (fn[1] = "is_form" /\ fn[2] \in {2, 4, 8, 11}) =>
        \A N \in Excluded(fn[2]) :
            form_func(N, arg_data, get_encoding, arg_delim, arg_quotechar)[1]
                => ret = <<FALSE, SiblingName(N)>>

\* the content has the shape form 3 describes for the delimiter: unquoted,
\* more than one line, more than one cell in every line and the same number
\* in each, the non-empty cells elementary, and a line of delimiters only
Form3Shape(s, delim) ==
    LET lines == str_split(s, <<"\n">>)
        cells(n) == NaiveCells(lines[n], delim)
    IN  /\ \A n \in 1..Len(s) : s[n] \notin {"\"", "'", "\r", "\\"}
        /\ Len(s) > 0 /\ s[Len(s)] # "\n"
        /\ Len(lines) > 1
        /\ \A n \in 1..Len(lines) :
               /\ Len(cells(n)) > 1
               /\ Len(cells(n)) = Len(cells(1))
               /\ \A m \in 1..Len(cells(n)) :
                      \A l \in 1..Len(cells(n)[m]) :
                          cells(n)[m][l] \in ElementaryChars
        /\ \E n \in 1..Len(lines) :
               \A m \in 1..Len(cells(n)) : cells(n)[m] = << >>

\* C15: the form-3 tester returns (True, None) for unquoted content with more
\* than one row, more than one cell per row, the same cell count in every
\* row, elementary non-empty cells and at least one row of delimiters only.
C15_Form3Matches ==
    (fn = <<"is_form", 3>> /\ arg_quotechar = ""
         /\ Form3Shape(arg_data, arg_delim)) =>
        ret = <<TRUE, None>>

====
